---- MODULE Spec2Model ----
(***************************************************************************)
(* Model of the summary-notes handler of triagebot (src/handlers/note.rs). *)
(*                                                                         *)
(* One issue document carries a machine-managed "SUMMARY" region: the      *)
(* rendered markdown plus the serialized NoteData it was rendered from.    *)
(* Every `@rustbot note ...` comment is an event that runs handle_command  *)
(* once.  handle_command has a single suspension point, the `.await` on    *)
(* EditIssueBody::apply, so each invocation is two atomic steps: lines     *)
(* 93-118 (read, mutate, render) and line 120 (persist).  Invocations for  *)
(* different events interleave at that suspension point.                   *)
(*                                                                         *)
(* Strings are TLA+ strings; format!/push_str are string concatenation.    *)
(***************************************************************************)
EXTENDS Integers, Sequences, FiniteSets, TLC

\* Number of command events delivered in one behaviour.
MaxEvents == 4

\* Concurrently running invocations of handle_command.
Handlers == {"h1", "h2"}

\* Input alphabet of note titles.
Titles == {"a", "b"}

\* The users commenting on the issue.
Authors == <<"alice", "bob">>

\* Option<T>: None is <<>>, Some(x) is <<x>>.
None == <<>>
Some(x) == <<x>>
IsSome(o) == Len(o) = 1
Unwrap(o) == o[1]

\* NoteCommand, parser::command::note (the two variants matched at 101-115).
Commands == [kind : {"Summary", "Remove"}, title : Titles]

\* The permanent link of the n-th comment.
CommentUrl(n) == "https://x/" \o ToString(n)

\* The user who posted the n-th comment: the commenters take turns.
Login(n) == Authors[((n - 1) % Len(Authors)) + 1]

\* github::Event of the n-th comment, as far as handle_command reads it:
\* issue() and html_url() are Options, user().login is always there.
Events(n) == [has_issue : BOOLEAN, has_url : BOOLEAN, login : {Login(n)}]

VARIABLES
    doc,      \* the persisted SUMMARY region of the issue
    body,     \* the issue body outside the SUMMARY markers
    task,     \* per handler: the frame of its handle_command invocation
    nEvents,  \* events delivered so far
    log       \* the commands persisted so far, in the order of their writes

vars == <<doc, body, task, nEvents, log>>

-----------------------------------------------------------------------------
(* NoteDataEntry and NoteData                                              *)

NoteDataEntry(title, comment_url, author) ==
    [title |-> title, comment_url |-> comment_url, author |-> author]

\* #[derive(Default)] for NoteData: an empty entries vector.
NoteData_default == [entries |-> <<>>]

\* The format arguments in the wrong places: author quoted, title after @.
NoteDataEntry_to_markdown_swapped(self) ==
    "\n- [\"" \o self.author \o "\" by @" \o self.title \o "](" \o self.comment_url \o ")"

NoteDataEntry_to_markdown(self) ==
    "\n- [\"" \o self.title \o "\" by @" \o self.author \o "](" \o self.comment_url \o ")"

\* The for loop of NoteData::to_markdown: push every entry's markdown onto text.
RECURSIVE PushEntries(_, _, _)
PushEntries(text, entries, i) ==
    IF i > Len(entries) THEN text
    ELSE PushEntries(text \o NoteDataEntry_to_markdown(entries[i]), entries, i + 1)

Header == "\n### Summary Notes\n"
Footer == "\n\nGenerated by triagebot, see [help](https://github.com/rust-lang/triagebot/wiki/Note) for how to add more"

\* to_markdown without its is_empty() check: header and attribution always.
NoteData_to_markdown_always(self) ==
    PushEntries(Header, self.entries, 1) \o Footer

NoteData_to_markdown(self) ==
    IF Len(self.entries) = 0 THEN ""
    ELSE PushEntries(Header, self.entries, 1) \o Footer

\* Iterator::rposition, a slip for position: the index of the last match.
Position_last(entries, title, i) ==
    LET hits == {j \in i..Len(entries) : entries[j].title = title}
    IN  IF hits = {} THEN None ELSE Some(CHOOSE j \in hits : \A k \in hits : k <= j)

\* Iterator::position: the index of the first entry the predicate holds for.
RECURSIVE Position(_, _, _)
Position(entries, title, i) ==
    IF i > Len(entries) THEN None
    ELSE IF entries[i].title = title THEN Some(i)
    ELSE Position(entries, title, i + 1)

\* Vec::retain on the title, a slip for remove(idx): every entry with the
\* title of the one at idx goes.
VecRemove_all(v, idx) == SelectSeq(v, LAMBDA x : x.title # v[idx].title)

\* Vec::swap_remove(idx), a slip for remove(idx): the last element takes
\* the place of the one dropped.
VecRemove_swap(v, idx) ==
    [j \in 1..(Len(v) - 1) |-> IF j = idx THEN v[Len(v)] ELSE v[j]]

\* An index off by one: the element before idx goes, if there is one.
VecRemove_before(v, idx) ==
    LET at == IF idx > 1 THEN idx - 1 ELSE idx
    IN  [j \in 1..(Len(v) - 1) |-> IF j < at THEN v[j] ELSE v[j + 1]]

\* Vec::remove(idx): drops the element at idx, shifting the rest left.
VecRemove(v, idx) == [j \in 1..(Len(v) - 1) |-> IF j < idx THEN v[j] ELSE v[j + 1]]

\* NoteData::remove: position(..).unwrap() panics when nothing matches.
NoteData_remove(self, title) ==
    LET idx == Position(self.entries, title, 1) IN
    IF IsSome(idx)
    THEN [panicked |-> FALSE, self |-> [entries |-> VecRemove(self.entries, Unwrap(idx))]]
    ELSE [panicked |-> TRUE, self |-> self]

\* A push at the front instead of the back.
EntriesPush_front(self, new_entry) == [entries |-> <<new_entry>> \o self.entries]

\* A push that skips a title the ledger already holds.
EntriesPush_unique(self, new_entry) ==
    IF \E i \in 1..Len(self.entries) : self.entries[i].title = new_entry.title
    THEN self
    ELSE [entries |-> Append(self.entries, new_entry)]

\* current.entries.push(new_entry)
EntriesPush(self, new_entry) == [entries |-> Append(self.entries, new_entry)]

\* The persisted state ignored: every command starts from the empty ledger.
UnwrapOrDefault_fresh(o) == NoteData_default

\* A default that is not the empty ledger: it holds a placeholder entry.
UnwrapOrDefault_placeholder(o) ==
    IF IsSome(o) THEN Unwrap(o) ELSE [entries |-> <<NoteDataEntry("", "", "")>>]

\* Option::unwrap_or_default on the result of current_data().
UnwrapOrDefault(o) == IF IsSome(o) THEN Unwrap(o) ELSE NoteData_default

-----------------------------------------------------------------------------
(* The document editor (interactions::EditIssueBody), the persistence      *)
(* collaborator: loadCurrent / applyUpdate with a versioned write.         *)

\* The marker name of another bot-managed region of the same issue body.
RegionId_other == "ASSIGN"

\* The marker name handle_command opens its editor with (line 94).
RegionId == "SUMMARY"

\* The issue body around the SUMMARY region: the text the users wrote before
\* and after it, and the region another handler keeps under its own markers.
InitialBody ==
    [before |-> "The issue description.\n",
     regions |-> [ASSIGN |-> "assigned to @carol"],
     after |-> "\nEdited by the reporter."]

\* EditIssueBody::new(&issue, "SUMMARY"): the handle remembers the markers it
\* was opened with and the version of the region it was opened on.
EditIssueBody_new(d) == [id |-> RegionId, version |-> d.version, data |-> d.data]

\* loadCurrent: the persisted NoteData, or None when the region was never written.
current_data(e) == e.data

\* applyUpdate detects a concurrent modification by the version token.
Conflicts(d, e) == d.version # e.version

\* applyUpdate on success: markdown and state are written as one unit.
Written(d, new_markdown, current) ==
    [data |-> Some(current), markdown |-> new_markdown, version |-> d.version + 1]

\* applyUpdate rewrites the span between the markers it was opened with and
\* nothing else: the rest of the body after a write through e.
WrittenBody(b, e, new_markdown) ==
    IF e.id = "SUMMARY" THEN b
    ELSE [b EXCEPT !.regions = [id \in DOMAIN b.regions |->
                                  IF id = e.id THEN new_markdown ELSE b.regions[id]]]

-----------------------------------------------------------------------------
(* handle_command                                                          *)

IdleFrame ==
    [pc |-> "idle", cmd |-> None, event |-> None, comment_url |-> None,
     e |-> None, loaded |-> None, current |-> NoteData_default,
     new_markdown |-> "", outcome |-> "None", result |-> "None", panic_line |-> 0]

\* A panicking unwrap() at the given line ends the invocation.
Panicked(f, line) == [f EXCEPT !.pc = "done", !.result = "Panic", !.panic_line = line]

\* The struct fields of the new entry filled from the wrong locals.
ApplyCommand_swapped(current, cmd, comment_url, author) ==
    IF cmd.kind = "Summary"
    THEN [panicked |-> FALSE,
          self |-> EntriesPush(current, NoteDataEntry(cmd.title, author, comment_url))]
    ELSE NoteData_remove(current, cmd.title)

\* Lines 101-115: the match on the command.
ApplyCommand(current, cmd, comment_url, author) ==
    IF cmd.kind = "Summary"
    THEN [panicked |-> FALSE,
          self |-> EntriesPush(current, NoteDataEntry(cmd.title, comment_url, author))]
    ELSE NoteData_remove(current, cmd.title)

\* The rendering taken before the match: the markdown of the ledger as read.
RenderStep_stale(f, current) ==
    [f EXCEPT !.pc = "applying", !.current = current,
              !.new_markdown = NoteData_to_markdown(f.current)]

\* Lines 117-118: render the mutated ledger; the frame now waits on apply.
RenderStep(f, current) ==
    [f EXCEPT !.pc = "applying", !.current = current,
              !.new_markdown = NoteData_to_markdown(current)]

\* Lines 93-118, run without suspension: d is the issue delivered with the
\* event, url the link of the commanding comment.
handle_command(d, event, cmd, url) ==
    LET f0 == [IdleFrame EXCEPT !.cmd = Some(cmd), !.event = Some(event),
                                !.comment_url = IF event.has_url THEN Some(url) ELSE None]
    IN  IF ~event.has_issue THEN Panicked(f0, 93)
        ELSE
        LET e == EditIssueBody_new(d)
            loaded == current_data(e)
            current == UnwrapOrDefault(loaded)
            f1 == [f0 EXCEPT !.e = Some(e), !.loaded = loaded, !.current = current]
        IN  IF ~event.has_url THEN Panicked(f1, 98)
            ELSE
            LET r == ApplyCommand(current, cmd, url, event.login)
            IN  IF r.panicked THEN Panicked(f1, 66)
                ELSE RenderStep(f1, r.self)

\* An apply whose error is dropped (`let _ = e.apply(..).await;`): Ok(()) always.
Returned_swallowed(f, result) ==
    [f EXCEPT !.pc = "done", !.outcome = result, !.result = "Ok"]

\* Line 120-122: `?` hands the outcome of e.apply(..).await to the caller
\* as it is, an error unchanged and success as Ok(()).
Returned(f, result) ==
    [f EXCEPT !.pc = "done", !.outcome = result, !.result = result]

-----------------------------------------------------------------------------
(* The state machine                                                       *)

Init ==
    /\ doc = [data |-> None, markdown |-> "", version |-> 0]
    /\ body = InitialBody
    /\ task = [h \in Handlers |-> IdleFrame]
    /\ nEvents = 0
    /\ log = <<>>

\* An event with a command arrives and handler h runs lines 93-118 on it.
Start(h, cmd, event) ==
    /\ task[h].pc \in {"idle", "done"}
    /\ nEvents < MaxEvents
    /\ nEvents' = nEvents + 1
    /\ task' = [task EXCEPT ![h] = handle_command(doc, event, cmd, CommentUrl(nEvents + 1))]
    /\ UNCHANGED <<doc, body, log>>

\* Line 120, apply succeeds: the new markdown and state are persisted.
ApplyOk(h) ==
    /\ task[h].pc = "applying"
    /\ ~Conflicts(doc, Unwrap(task[h].e))
    /\ doc' = IF Unwrap(task[h].e).id = "SUMMARY"
              THEN Written(doc, task[h].new_markdown, task[h].current)
              ELSE doc
    /\ body' = WrittenBody(body, Unwrap(task[h].e), task[h].new_markdown)
    /\ task' = [task EXCEPT ![h] = Returned(task[h], "Ok")]
    /\ log' = Append(log, [cmd |-> Unwrap(task[h].cmd),
                           comment_url |-> Unwrap(task[h].comment_url),
                           author |-> Unwrap(task[h].event).login])
    /\ UNCHANGED nEvents

\* Line 120, apply reports a concurrent modification: `?` returns the error.
ApplyConflict(h) ==
    /\ task[h].pc = "applying"
    /\ Conflicts(doc, Unwrap(task[h].e))
    /\ task' = [task EXCEPT ![h] = Returned(task[h], "ConflictError")]
    /\ UNCHANGED <<doc, body, nEvents, log>>

\* Line 120, apply fails in the storage layer: `?` returns the error.
ApplyIOError(h) ==
    /\ task[h].pc = "applying"
    /\ task' = [task EXCEPT ![h] = Returned(task[h], "IOError")]
    /\ UNCHANGED <<doc, body, nEvents, log>>

Next ==
    \/ \E h \in Handlers, cmd \in Commands, event \in Events(nEvents + 1) : Start(h, cmd, event)
    \/ \E h \in Handlers : ApplyOk(h)
    \/ \E h \in Handlers : ApplyConflict(h)
    \/ \E h \in Handlers : ApplyIOError(h)

Spec == Init /\ [][Next]_vars

-----------------------------------------------------------------------------
(* Vocabulary of the properties                                            *)

\* The invocation of h got an event carrying an issue and a comment link.
Complete(h) ==
    /\ task[h].pc # "idle"
    /\ Unwrap(task[h].event).has_issue
    /\ Unwrap(task[h].event).has_url

Kind(h) == Unwrap(task[h].cmd).kind
Title(h) == Unwrap(task[h].cmd).title

\* The entries h read at line 96, before its command was applied.
OldEntries(h) == IF task[h].loaded = None THEN <<>> ELSE task[h].loaded[1].entries

\* The entries after the match of lines 101-115.
NewEntries(h) == task[h].current.entries

HasTitle(entries, t) == \E i \in 1..Len(entries) : entries[i].title = t

\* The entry an Add of h creates.
NewEntry(h) ==
    [title |-> Title(h), comment_url |-> Unwrap(task[h].comment_url),
     author |-> Unwrap(task[h].event).login]

-----------------------------------------------------------------------------
(* C1 *)

\* new is old without its element at index i.
DroppedAt(old, new, i) ==
    /\ Len(new) = Len(old) - 1
    /\ \A j \in 1..(i - 1) : new[j] = old[j]
    /\ \A j \in i..Len(new) : new[j] = old[j + 1]

P3_Before ==
    <<[title |-> "a", comment_url |-> "u1", author |-> "alice"],
      [title |-> "b", comment_url |-> "u2", author |-> "bob"],
      [title |-> "a", comment_url |-> "u3", author |-> "alice"]>>

\* C1: a Remove{t} on a ledger holding an entry titled t deletes exactly the
\* first entry titled t; every other entry, later entries titled t included,
\* stays, in the same relative order.  Removing "a" from [a@u1, b@u2, a@u3]
\* yields [b@u2, a@u3].
C1_RemoveFirst ==
    /\ \A h \in Handlers :
        (Complete(h) /\ Kind(h) = "Remove" /\ HasTitle(OldEntries(h), Title(h)))
        => /\ task[h].result # "Panic"
           /\ \E i \in 1..Len(OldEntries(h)) :
                /\ OldEntries(h)[i].title = Title(h)
                /\ \A j \in 1..(i - 1) : OldEntries(h)[j].title # Title(h)
                /\ DroppedAt(OldEntries(h), NewEntries(h), i)
    /\ NoteData_remove([entries |-> P3_Before], "a").self.entries
         = <<P3_Before[2], P3_Before[3]>>

\* A Remove{"a"} ran on a ledger titled a, b, a and left b, a.
C1_Witness ==
    \E h \in Handlers :
        /\ Complete(h) /\ Kind(h) = "Remove" /\ Title(h) = "a"
        /\ Len(OldEntries(h)) = 3
        /\ OldEntries(h)[1].title = "a"
        /\ OldEntries(h)[2].title = "b"
        /\ OldEntries(h)[3].title = "a"
        /\ NewEntries(h) = <<OldEntries(h)[2], OldEntries(h)[3]>>

-----------------------------------------------------------------------------
(* C2 *)

\* C2: a Remove{t} on an empty ledger, or on one with no entry titled t,
\* returns the typed error EntryNotFound (no panic) and leaves the ledger
\* and the persisted document unchanged.
C2_RemoveMissingIsTypedError ==
    \A h \in Handlers :
        (Complete(h) /\ Kind(h) = "Remove" /\ ~HasTitle(OldEntries(h), Title(h)))
        => /\ task[h].result = "EntryNotFound"
           /\ NewEntries(h) = OldEntries(h)

-----------------------------------------------------------------------------
(* C3 *)

\* The persisted entries; none before the first write.
DocEntries == IF doc.data = None THEN <<>> ELSE doc.data[1].entries

Contains(entries, x) == \E i \in 1..Len(entries) : entries[i] = x

\* C3: two Adds handled concurrently against the same persisted state both
\* end up in the persisted ledger once both handlers have completed, along
\* with every entry of that initial state; neither write is lost.
C3_ConcurrentAddsBothPersist ==
    \A g, h \in Handlers :
        ( /\ g # h
          /\ Complete(g) /\ Complete(h)
          /\ Kind(g) = "Summary" /\ Kind(h) = "Summary"
          /\ task[g].e = task[h].e
          /\ task[g].pc = "done" /\ task[h].pc = "done"
          /\ task[g].result # "IOError" /\ task[h].result # "IOError" )
        => /\ Contains(DocEntries, NewEntry(g))
           /\ Contains(DocEntries, NewEntry(h))
           /\ \A i \in 1..Len(OldEntries(g)) : Contains(DocEntries, OldEntries(g)[i])

-----------------------------------------------------------------------------
(* C4 *)

\* The entry the i-th persisted command created, were it an Add.
LoggedEntry(i) ==
    [title |-> log[i].cmd.title, comment_url |-> log[i].comment_url,
     author |-> log[i].author]

\* C4: as long as only Adds have been applied, starting from the absent
\* ledger, the persisted entries are exactly the added entries in the order
\* the Adds were applied.
C4_AddsKeepOrder ==
    (\A i \in 1..Len(log) : log[i].cmd.kind = "Summary")
    => DocEntries = [i \in 1..Len(log) |-> LoggedEntry(i)]

\* Three Adds with differing titles have been applied.
C4_Witness ==
    /\ Len(log) = 3
    /\ \A i \in 1..Len(log) : log[i].cmd.kind = "Summary"
    /\ log[1].cmd.title # log[2].cmd.title
    /\ Len(DocEntries) = 3

-----------------------------------------------------------------------------
(* C5 *)

\* The bullet of an entry, as the notes section shows it.
Bullet(x) == "- [\"" \o x.title \o "\" by @" \o x.author \o "](" \o x.comment_url \o ")"

\* How often pat occurs in text.
Occurrences(text, pat) ==
    Cardinality({i \in 1..(Len(text) - Len(pat) + 1) :
                    SubSeq(text, i, i + Len(pat) - 1) = pat})

\* The lines of text that start a list item.
BulletCount(text) == Occurrences(text, "\n- [")

\* C5: an Add whose title already occurs in the ledger still appends a new
\* entry: the ledger holds the earlier entry and the new one, in insertion
\* order, and each is rendered as a bullet of its own.
C5_DuplicateTitlesAllowed ==
    \A h \in Handlers :
        (Complete(h) /\ Kind(h) = "Summary" /\ HasTitle(OldEntries(h), Title(h)))
        => /\ task[h].result # "Panic"
           /\ NewEntries(h) = OldEntries(h) \o <<NewEntry(h)>>
           /\ task[h].pc = "applying"
              => /\ BulletCount(task[h].new_markdown) = Len(OldEntries(h)) + 1
                 /\ \A i \in 1..Len(NewEntries(h)) :
                      Occurrences(task[h].new_markdown,
                                  "\n" \o Bullet(NewEntries(h)[i])) = 1

\* An Add of a title the ledger already held is rendered and about to be
\* persisted; the ledger read held two entries.
C5_Witness ==
    \E h \in Handlers :
        /\ Complete(h) /\ Kind(h) = "Summary"
        /\ HasTitle(OldEntries(h), Title(h))
        /\ task[h].pc = "applying"
        /\ Len(OldEntries(h)) = 2
        /\ Len(NewEntries(h)) = 3

-----------------------------------------------------------------------------
(* C6 *)

\* C6: the persisted markdown of the region is always the rendering of the
\* persisted ledger state: the two are written together and never drift.
C6_MarkdownMatchesState ==
    doc.markdown = NoteData_to_markdown([entries |-> DocEntries])

\* The region has been rewritten at least twice and shows notes.
C6_Witness ==
    /\ doc.version >= 2
    /\ Len(DocEntries) >= 1
    /\ doc.markdown # ""

-----------------------------------------------------------------------------
(* C7 *)

\* One line per entry, in ledger order.
RECURSIVE BulletLines(_)
BulletLines(entries) ==
    IF entries = <<>> THEN ""
    ELSE "\n" \o Bullet(Head(entries)) \o BulletLines(Tail(entries))

\* The invocation of h has just rendered its ledger (lines 117-118) and is
\* about to apply it; new_markdown and current do not change afterwards.
Rendered(h) == task[h].pc = "applying"

\* md is the notes section of entries.
IsNotesSection(md, entries) ==
    /\ md = "\n### Summary Notes\n" \o BulletLines(entries)
            \o "\n\nGenerated by triagebot, see [help](https://github.com/rust-lang/triagebot/wiki/Note) for how to add more"
    /\ BulletCount(md) = Len(entries)

P6_Entry == [title |-> "fix-typo", comment_url |-> "https://x/1", author |-> "alice"]

-----------------------------------------------------------------------------
(* C8 *)

\* C8: an event without an issue, or without a comment link, is rejected
\* with the typed error MissingContext; nothing is persisted for it.
C8_MissingContextIsTypedError ==
    \A h \in Handlers :
        (task[h].pc # "idle" /\ ~Complete(h))
        => /\ task[h].pc = "done"
           /\ task[h].result = "MissingContext"

-----------------------------------------------------------------------------
(* C9 *)

\* C9: when apply reports a conflict, the invocation does not end there:
\* the dispatcher goes round again (re-read, re-apply, re-render) and only
\* gives up after a bounded number of such retries.
C9_ConflictIsRetried ==
    [][\A h \in Handlers :
          (task[h].pc = "applying" /\ task'[h].result = "ConflictError")
          => task'[h].pc # "done"]_vars

-----------------------------------------------------------------------------
(* C10 *)

\* C10: with no persisted state, handle_command works on the empty ledger:
\* an Add persists a ledger of exactly one entry, and a Remove ends as a
\* Remove on a persisted empty ledger does.
C10_AbsentIsEmpty ==
    /\ \A h \in Handlers :
        (Complete(h) /\ Kind(h) = "Summary" /\ task[h].loaded = None)
        => /\ task[h].result # "Panic"
           /\ NewEntries(h) = <<NewEntry(h)>>
           /\ (task[h].result = "Ok" /\ doc.version = Unwrap(task[h].e).version + 1)
              => doc.data = Some([entries |-> <<NewEntry(h)>>])
    /\ \A g, h \in Handlers :
        ( /\ Complete(g) /\ Kind(g) = "Remove" /\ task[g].loaded = None
          /\ Complete(h) /\ Kind(h) = "Remove" /\ task[h].loaded = Some([entries |-> <<>>]) )
        => /\ task[g].pc = task[h].pc
           /\ task[g].result = task[h].result
           /\ task[g].panic_line = task[h].panic_line
           /\ NewEntries(g) = NewEntries(h)

\* The first Add on the issue was persisted from the absent state; one
\* Remove ran on the absent state and one on a persisted empty ledger.
C10_Witness ==
    /\ Len(log) >= 1
    /\ log[1].cmd.kind = "Summary"
    /\ \E g, h \in Handlers :
        /\ Complete(g) /\ Kind(g) = "Remove" /\ task[g].loaded = None
        /\ Complete(h) /\ Kind(h) = "Remove" /\ task[h].loaded = Some([entries |-> <<>>])

-----------------------------------------------------------------------------
(* C11 *)

\* C11: whatever command is handled, and however it ends, the issue body
\* outside the SUMMARY markers stays as it was; only the region between the
\* markers and its stored state are rewritten.
C11_OutsideUntouched == body = InitialBody

\* The region has been rewritten, one invocation has panicked and one was
\* refused by the editor.
C11_Witness ==
    /\ doc.version >= 1
    /\ doc.markdown # ""
    /\ \E g, h \in Handlers :
        /\ task[g].result = "Panic"
        /\ task[h].result \in {"ConflictError", "IOError"}

-----------------------------------------------------------------------------
(* C12 *)

\* C12: when apply fails with an IOError, handle_command ends there and
\* returns that IOError (not a conflict, not a missing entry, not success),
\* and the persisted ledger and markdown are what they were.
C12_IOErrorPropagates ==
    [][\A h \in Handlers :
          (task[h].pc = "applying" /\ task'[h].outcome = "IOError")
          => /\ task'[h].pc = "done"
             /\ task'[h].result = "IOError"
             /\ doc' = doc]_vars

\* An apply on a ledger with notes failed in storage; the region still
\* holds what the invocation had read.
C12_Witness ==
    \E h \in Handlers :
        /\ task[h].outcome = "IOError"
        /\ task[h].pc = "done"
        /\ Len(OldEntries(h)) >= 1
        /\ doc.data = task[h].loaded

-----------------------------------------------------------------------------
(* C13 *)

\* entries without its first entry titled t.
WithoutFirst(entries, t) ==
    LET i == CHOOSE k \in 1..Len(entries) :
                /\ entries[k].title = t
                /\ \A j \in 1..(k - 1) : entries[j].title # t
    IN  SubSeq(entries, 1, i - 1) \o SubSeq(entries, i + 1, Len(entries))

\* One logged command applied on its own to a ledger.
SerialStep(entries, rec) ==
    IF rec.cmd.kind = "Summary"
    THEN Append(entries, [title |-> rec.cmd.title, comment_url |-> rec.comment_url,
                          author |-> rec.author])
    ELSE WithoutFirst(entries, rec.cmd.title)

\* The ledgers a serial run of the logged commands goes through, or <<>>
\* when some Remove of the run finds nothing to remove.
RECURSIVE Serial(_, _)
Serial(entries, l) ==
    IF l = <<>> THEN <<entries>>
    ELSE IF Head(l).cmd.kind = "Remove" /\ ~HasTitle(entries, Head(l).cmd.title)
    THEN <<>>
    ELSE Serial(SerialStep(entries, Head(l)), Tail(l))

\* C13: read, mutate and persist of each invocation act as one transaction:
\* the persisted ledger is what the successfully completed commands yield
\* when applied one at a time in the order of their writes, and a write
\* only ever replaces the very state its invocation had read.
C13_Serializable ==
    [][ /\ Serial(<<>>, log') = <<DocEntries'>>
        /\ doc' # doc
           => \E h \in Handlers :
                /\ task[h].pc = "applying"
                /\ task'[h].result = "Ok"
                /\ doc.data = task[h].loaded
                /\ doc.version = Unwrap(task[h].e).version
                /\ doc'.data = Some(task[h].current) ]_vars

\* Two invocations read the same state; one write went through, the other
\* was refused, and further commands were persisted.
C13_Witness ==
    /\ Len(log) >= 3
    /\ \E i \in 1..Len(log) : log[i].cmd.kind = "Remove"
    /\ \E g, h \in Handlers :
        /\ g # h
        /\ task[g].result = "Ok"
        /\ task[h].result = "ConflictError"

-----------------------------------------------------------------------------
(* C14 *)

\* C14: a successful invocation changes the ledger by exactly one entry:
\* a persisted Add leaves one entry more than it read, a persisted Remove
\* one entry less, and no write changes the count by more than one.
C14_OneEntryPerCommand ==
    [][\A h \in Handlers :
          (task[h].pc = "applying" /\ task'[h].result = "Ok")
          => /\ Kind(h) = "Summary" => Len(DocEntries') = Len(OldEntries(h)) + 1
             /\ Kind(h) = "Remove" => Len(DocEntries') = Len(OldEntries(h)) - 1
             /\ Len(DocEntries') - Len(DocEntries) \in {-1, 1}]_vars

\* A Remove was persisted on a ledger that held its title twice.
C14_Witness ==
    \E h \in Handlers :
        /\ Complete(h) /\ Kind(h) = "Remove"
        /\ task[h].result = "Ok"
        /\ doc.version = Unwrap(task[h].e).version + 1
        /\ Cardinality({i \in 1..Len(OldEntries(h)) :
                          OldEntries(h)[i].title = Title(h)}) = 2
        /\ Len(DocEntries) = Len(OldEntries(h)) - 1

-----------------------------------------------------------------------------
(* C15 *)

\* C15: with a complete event context the ledger mutation of an Add never
\* fails, whatever it read (nothing, an empty ledger, a ledger holding the
\* title): it yields the ledger read plus, as last entry, the command's
\* title with the comment link and the author of the event.
C15_AddNeverFails ==
    \A h \in Handlers :
        (Complete(h) /\ Kind(h) = "Summary")
        => /\ task[h].result # "Panic"
           /\ task[h].panic_line = 0
           /\ Len(NewEntries(h)) = Len(OldEntries(h)) + 1
           /\ \A i \in 1..Len(OldEntries(h)) : NewEntries(h)[i] = OldEntries(h)[i]
           /\ LET last == NewEntries(h)[Len(NewEntries(h))]
              IN  /\ last.title = Title(h)
                  /\ last.comment_url = Unwrap(task[h].comment_url)
                  /\ last.author = Unwrap(task[h].event).login

\* One Add ran with no persisted state, another on a ledger that already
\* held its title.
C15_Witness ==
    \E g, h \in Handlers :
        /\ Complete(g) /\ Kind(g) = "Summary" /\ task[g].loaded = None
        /\ Complete(h) /\ Kind(h) = "Summary"
        /\ HasTitle(OldEntries(h), Title(h))

-----------------------------------------------------------------------------
(* C16 *)

StartsWith(text, p) == Len(text) >= Len(p) /\ SubSeq(text, 1, Len(p)) = p

EndsWith(text, p) ==
    Len(text) >= Len(p) /\ SubSeq(text, Len(text) - Len(p) + 1, Len(text)) = p

\* md is empty exactly for no entries, and otherwise opens with the header
\* and closes with the attribution line.
EmptyIffNoEntries(md, entries) ==
    /\ (md = "") <=> (entries = <<>>)
    /\ entries # <<>>
       => /\ StartsWith(md, "\n### Summary Notes\n")
          /\ EndsWith(md, "\n\nGenerated by triagebot, see [help](https://github.com/rust-lang/triagebot/wiki/Note) for how to add more")

-----------------------------------------------------------------------------
(* C17 *)

\* The notes section of a ledger.
NotesSection(entries) ==
    IF entries = <<>> THEN ""
    ELSE "\n### Summary Notes\n" \o BulletLines(entries)
         \o "\n\nGenerated by triagebot, see [help](https://github.com/rust-lang/triagebot/wiki/Note) for how to add more"

\* g added a title its ledger did not hold, and h, reading what g wrote,
\* removes that title.
AddThenRemove(g, h) ==
    /\ g # h
    /\ Complete(g) /\ Kind(g) = "Summary" /\ task[g].result = "Ok"
    /\ ~HasTitle(OldEntries(g), Title(g))
    /\ Complete(h) /\ Kind(h) = "Remove" /\ Title(h) = Title(g)
    /\ Unwrap(task[h].e).version = Unwrap(task[g].e).version + 1

\* C17: on a ledger L without an entry titled t, Add{t} followed by
\* Remove{t} gives back L, entry for entry, and the rendering of L.
C17_AddRemoveRestores ==
    \A g, h \in Handlers :
        AddThenRemove(g, h)
        => /\ task[h].result # "Panic"
           /\ NewEntries(h) = OldEntries(g)
           /\ task[h].new_markdown = NotesSection(OldEntries(g))
           /\ (task[h].result = "Ok" /\ doc.version = Unwrap(task[h].e).version + 1)
              => /\ DocEntries = OldEntries(g)
                 /\ doc.markdown = NotesSection(OldEntries(g))

\* The Remove has been persisted and the ledger restored holds an entry.
C17_Witness ==
    \E g, h \in Handlers :
        /\ AddThenRemove(g, h)
        /\ task[h].result = "Ok"
        /\ doc.version = Unwrap(task[h].e).version + 1
        /\ Len(OldEntries(g)) >= 1
        /\ DocEntries = OldEntries(g)

-----------------------------------------------------------------------------
(* C18 *)

\* The persisted Adds whose entry is x.
AddsOf(x) ==
    {i \in 1..Len(log) : log[i].cmd.kind = "Summary" /\ LoggedEntry(i) = x}

\* C18: every persisted entry is, field for field, the entry some earlier
\* Add created; the surviving entries stand in the order their Adds were
\* applied; and a command changes no entry it found.
C18_EntriesImmutable ==
    /\ \A j \in 1..Len(DocEntries) : AddsOf(DocEntries[j]) # {}
    /\ \A j, k \in 1..Len(DocEntries) :
        j < k => \E i1 \in AddsOf(DocEntries[j]), i2 \in AddsOf(DocEntries[k]) : i1 < i2
    /\ \A h \in Handlers :
        Rendered(h)
        => \A j \in 1..Len(NewEntries(h)) :
              \/ Contains(OldEntries(h), NewEntries(h)[j])
              \/ Kind(h) = "Summary" /\ NewEntries(h)[j] = NewEntry(h)

\* Three Adds and then a Remove of the first entry: two entries survive.
C18_Witness ==
    /\ Len(log) = 4
    /\ log[4].cmd.kind = "Remove"
    /\ Len(DocEntries) = 2
    /\ AddsOf(DocEntries[1]) = {2}
    /\ AddsOf(DocEntries[2]) = {3}

====
